---- MODULE Spec2Model ----
(***************************************************************************)
(* Model of BannedFiles.py, an NZBGet queue/post-processing script.        *)
(*                                                                         *)
(* One invocation of the script is a run of main(): startCheck, reading    *)
(* the context, the reorder step (sort_inner_files), the scan              *)
(* (detectBannedFile), cleanUp and the process exit.  The host (NZBGet)    *)
(* starts invocations, answers the two remote calls and keeps the          *)
(* post-processing parameters the script prints as "[NZB] NAME=value".     *)
(*                                                                         *)
(* Strings the script takes apart (file names, the option value) are       *)
(* sequences of one-character strings.  An environment variable is an      *)
(* optional value: None (unset) or Some(v).                                *)
(*                                                                         *)
(* Scope: the host's remote calls return, NZBOP_TEMPDIR and the            *)
(* NZBOP_CONTROL* options are set and the marker directory exists;         *)
(* marker files are named by decimal download ids.                         *)
(***************************************************************************)
EXTENDS Naturals, Integers, Sequences, FiniteSets, TLC

VARIABLES
    pc,          \* where the process is: idle, startCheck, context, reorder, scan, exited
    cfg,         \* NZBPO_BANNEDEXTENSIONS, the host's option for this script
    params,      \* the download's post-processing parameters kept by the host
    env,         \* the invocation's environment read by startCheck and main
    context,     \* the Prefix-dependent variables main reads (lines 219-224)
    listing,     \* the host's answer to listfiles
    dirEntries,  \* the entries of the working directory
    scanResult,  \* what detectBannedFile returned
    out,         \* the "[NZB] ..." lines printed so far
    rpc,         \* the remote calls issued so far
    cu,          \* the record of the cleanUp call of this invocation
    exitCode,    \* the process exit status
    exitPath     \* which exit was taken

vars == <<pc, cfg, params, env, context, listing, dirEntries, scanResult,
          out, rpc, cu, exitCode, exitPath>>

(***************************************************************************)
(* Bounds of the model.                                                    *)
(***************************************************************************)
MaxId == 3          \* download ids (and the first file id of a listing) are 1..MaxId
MaxEntries == 2     \* entries of a remote file listing

(***************************************************************************)
(* Program constants.                                                      *)
(***************************************************************************)
POSTPROCESS_SUCCESS == 93
POSTPROCESS_NONE == 95
POSTPROCESS_ERROR == 94
ExitUsage == 1      \* sys.exit(1)
ExitIgnored == 0    \* sys.exit(0)
ExitUncaught == ExitUsage   \* the interpreter's status after an uncaught exception

None == << >>
Some(v) == <<v>>
IsSet(o) == Len(o) = 1
Val(o) == o[1]

(***************************************************************************)
(* Strings.                                                                *)
(***************************************************************************)
Yes == <<"y", "e", "s">>
Empty == << >>
BAD == <<"B", "A", "D">>

Digits == {"0", "1", "2", "3", "4", "5", "6", "7", "8", "9"}

DigitVal(c) ==
    CASE c = "0" -> 0 [] c = "1" -> 1 [] c = "2" -> 2 [] c = "3" -> 3
      [] c = "4" -> 4 [] c = "5" -> 5 [] c = "6" -> 6 [] c = "7" -> 7
      [] c = "8" -> 8 [] c = "9" -> 9

\* str.lower() on one character, for the letters of the model's alphabet
LowerChar(c) ==
    CASE c = "A" -> "a" [] c = "E" -> "e" [] c = "F" -> "f" [] c = "N" -> "n"
      [] c = "O" -> "o" [] c = "P" -> "p" [] c = "R" -> "r" [] c = "T" -> "t"
      [] c = "X" -> "x"
      [] OTHER -> c

Lower(s) == [i \in 1..Len(s) |-> LowerChar(s[i])]

\* int(s) for a string of decimal digits
RECURSIVE ToInt(_)
ToInt(s) ==
    IF Len(s) = 0 THEN 0
    ELSE 10 * ToInt(SubSeq(s, 1, Len(s) - 1)) + DigitVal(s[Len(s)])

\* s.replace(' ', '')
RECURSIVE RemoveSpaces(_)
RemoveSpaces(s) ==
    IF Len(s) = 0 THEN << >>
    ELSE IF Head(s) = " " THEN RemoveSpaces(Tail(s))
         ELSE <<Head(s)>> \o RemoveSpaces(Tail(s))

\* s.split(','): the pieces between the commas, always at least one piece
RECURSIVE SplitComma(_)
SplitComma(s) ==
    IF \A i \in 1..Len(s) : s[i] # ","
    THEN <<s>>
    ELSE LET k == CHOOSE i \in 1..Len(s) :
                      s[i] = "," /\ \A j \in 1..(i - 1) : s[j] # ","
         IN <<SubSeq(s, 1, k - 1)>> \o SplitComma(SubSeq(s, k + 1, Len(s)))

\* os.path.splitext(name)[-1] for a name without directory separators: from
\* the last dot on, unless only dots precede it
splitext(name) ==
    LET dots == {i \in 1..Len(name) : name[i] = "."}
    IN IF dots = {} THEN << >>
       ELSE LET dotIndex == CHOOSE i \in dots : \A j \in dots : j <= i
            IN IF \E j \in 1..(dotIndex - 1) : name[j] # "."
               THEN SubSeq(name, dotIndex, Len(name))
               ELSE << >>

InSeq(x, s) == \E i \in 1..Len(s) : s[i] = x

(***************************************************************************)
(* bannedExtensions (line 53).                                             *)
(***************************************************************************)
bannedExtensions(option) ==
    SplitComma(RemoveSpaces(IF IsSet(option) THEN Val(option) ELSE << >>))

(***************************************************************************)
(* detectBannedFile (lines 163-170).  A directory entry is                 *)
(* [name, isFile]; the result is the first regular file whose extension    *)
(* is in the list, or NoFile for Python's None.  listdir returns no        *)
(* empty name, so "if detectBannedFile(...)" is Len(result) > 0.           *)
(***************************************************************************)
NoFile == << >>

fileList(entries) == SelectSeq(entries, LAMBDA e : e.isFile)

IsBannedName(item, banned) == InSeq(splitext(item), banned)

detectBannedFile(entries, banned) ==
    LET fl == fileList(entries)
        hits == {i \in 1..Len(fl) : IsBannedName(fl[i].name, banned)}
    IN IF hits = {} THEN NoFile
       ELSE fl[CHOOSE i \in hits : \A j \in hits : i <= j].name

(***************************************************************************)
(* sort_inner_files (lines 172-213).                                       *)
(* The two patterns are applied with re.match: anchored at the start of    *)
(* the name, free at its end, ignoring case.  The greedy ".*" makes the    *)
(* last place where the rest matches the one that counts; "(\d+)" is the   *)
(* whole run of digits there.  A pattern's result is None or               *)
(* Some(group(1)).                                                         *)
(***************************************************************************)
HasAt(s, i, lit) ==
    /\ i >= 1
    /\ i + Len(lit) - 1 <= Len(s)
    /\ SubSeq(Lower(s), i, i + Len(lit) - 1) = lit

\* the last index of the run of digits of s that starts at i (i - 1: no digit at i)
DigitRunEnd(s, i) ==
    LET ends == {j \in (i - 1)..Len(s) : \A k \in i..j : s[k] \in Digits}
    IN CHOOSE j \in ends : \A k \in ends : k <= j

LastOf(S) == CHOOSE i \in S : \A j \in S : j <= i

regex1(name) ==
    LET lit == <<".", "p", "a", "r", "t">>
        rar == <<".", "r", "a", "r">>
        at == {i \in 1..Len(name) :
                  /\ HasAt(name, i, lit)
                  /\ DigitRunEnd(name, i + 5) >= i + 5
                  /\ HasAt(name, DigitRunEnd(name, i + 5) + 1, rar)}
    IN IF at = {} THEN None
       ELSE Some(SubSeq(name, LastOf(at) + 5, DigitRunEnd(name, LastOf(at) + 5)))

regex2(name) ==
    LET lit == <<".", "r">>
        at == {i \in 1..Len(name) :
                  /\ HasAt(name, i, lit)
                  /\ DigitRunEnd(name, i + 2) >= i + 2}
    IN IF at = {} THEN None
       ELSE Some(SubSeq(name, LastOf(at) + 2, DigitRunEnd(name, LastOf(at) + 2)))

\* regex1.match(cur_name) or regex2.match(cur_name)  (line 195)
splitMatch(name) == IF IsSet(regex1(name)) THEN regex1(name) ELSE regex2(name)

\* the volume number read as text: "10" sorts before "2"
cur_numAsText(group) ==
    ToInt(group \o [i \in 1..(4 - Len(group)) |-> "0"])

\* cur_num = int(match.group(1))  (line 197)
cur_num(group) == ToInt(group)

\* "not file_num or cur_num > file_num" (line 198): file_num is None or a number
takesOver(file_num, n) ==
    \/ ~IsSet(file_num)
    \/ Val(file_num) = 0
    \/ n > Val(file_num)

NoPick == [file_num |-> None, file_id |-> None, file_name |-> None]

\* the loop of lines 190-201 over the entries of the listing, each an "ID"
\* line followed by a "Filename" line
RECURSIVE pickLast(_, _)
pickLast(entries, st) ==
    IF Len(entries) = 0 THEN st
    ELSE LET e == Head(entries)
             m == splitMatch(e.Filename)
             next == IF IsSet(m) /\ takesOver(st.file_num, cur_num(Val(m)))
                     THEN [file_num |-> Some(cur_num(Val(m))),
                           file_id |-> Some(e.ID),
                           file_name |-> Some(e.Filename)]
                     ELSE st
         IN pickLast(Tail(entries), next)

\* the remote calls of sort_inner_files: listfiles, then FileMoveTop for the
\* pick when "if (file_id)" holds (lines 177, 204-211)
ListFiles == [call |-> "listfiles", id |-> 0]
ListGroups == [call |-> "listgroups", id |-> 0]
FileMoveTop(id) == [call |-> "FileMoveTop", id |-> id]

sort_inner_files(entries) ==
    LET st == pickLast(entries, NoPick)
    IN IF IsSet(st.file_id) /\ Val(st.file_id) # 0
       THEN <<ListFiles, FileMoveTop(Val(st.file_id))>>
       ELSE <<ListFiles>>

(***************************************************************************)
(* cleanUp (lines 92-119).  files: the marker ids in the temp folder;      *)
(* live: the ids listgroups reports; nzb_id: NZBPP_NZBID (None when        *)
(* unset); failing: the markers whose os.remove raises.                    *)
(***************************************************************************)
\* the query issued as soon as one marker is there
queriesHostFromOne(files) == Cardinality(files) > 0

queriesHost(files) == Cardinality(files) > 1

nzbids(files, live) == IF queriesHost(files) THEN live ELSE {}

\* the current download's marker left to the queue's verdict
old_temp_filesNoCurrent(files, live, nzb_id) == files \ nzbids(files, live)

old_temp_files(files, live, nzb_id) ==
    LET old == files \ nzbids(files, live)
    IN IF IsSet(nzb_id) /\ Val(nzb_id) \in files /\ Val(nzb_id) \notin old
       THEN old \cup {Val(nzb_id)}
       ELSE old

cleanUp(files, live, nzb_id, failing) ==
    [ran |-> TRUE,
     files |-> files,
     live |-> live,
     nzb_id |-> nzb_id,
     failing |-> failing,
     queried |-> queriesHost(files),
     removeCalls |-> old_temp_files(files, live, nzb_id),
     after |-> files \ (old_temp_files(files, live, nzb_id) \ failing)]

NoCleanUp ==
    [ran |-> FALSE, files |-> {}, live |-> {}, nzb_id |-> None, failing |-> {},
     queried |-> FALSE, removeCalls |-> {}, after |-> {}]

cleanUpCalls(c) == IF c.queried THEN <<ListGroups>> ELSE << >>

(***************************************************************************)
(* startCheck (lines 59-90).  The result names the exit taken, or          *)
(* "continue".  Line 77 concatenates NZBPR_PPSTATUS_BANNEDFILE, which      *)
(* raises when that parameter is unset.                                    *)
(***************************************************************************)
KnownEvents == {Some("NZB_ADDED"), Some("FILE_DOWNLOADED"), Some("NZB_DOWNLOADED"), None}

\* the FAILURE/BAD rule tried before the unknown-event rule
startCheckStatusFirst(e) ==
    IF ~(IsSet(e.event) \/ e.ppDirectory # "unset") \/ ~e.articleCache
    THEN "usage"
    ELSE IF e.status = Some("FAILURE/BAD")
    THEN IF e.banned = Some(Yes) /\ ~IsSet(e.bannedFile)
         THEN "uncaught"
         ELSE "failureBad"
    ELSE IF e.event \notin KnownEvents
    THEN "ignored"
    ELSE IF e.ppDirectory = "missing"
    THEN "missingDir"
    ELSE IF e.totalStatus = Some("FAILURE")
    THEN "totalFailure"
    ELSE "continue"

\* the missing-directory rule tried before the FAILURE/BAD rule
startCheckDirectoryFirst(e) ==
    IF ~(IsSet(e.event) \/ e.ppDirectory # "unset") \/ ~e.articleCache
    THEN "usage"
    ELSE IF e.event \notin KnownEvents
    THEN "ignored"
    ELSE IF e.ppDirectory = "missing"
    THEN "missingDir"
    ELSE IF e.status = Some("FAILURE/BAD")
    THEN IF e.banned = Some(Yes) /\ ~IsSet(e.bannedFile)
         THEN "uncaught"
         ELSE "failureBad"
    ELSE IF e.totalStatus = Some("FAILURE")
    THEN "totalFailure"
    ELSE "continue"

startCheck(e) ==
    IF ~(IsSet(e.event) \/ e.ppDirectory # "unset") \/ ~e.articleCache
    THEN "usage"
    ELSE IF e.event \notin KnownEvents
    THEN "ignored"
    ELSE IF e.status = Some("FAILURE/BAD")
    THEN IF e.banned = Some(Yes) /\ ~IsSet(e.bannedFile)
         THEN "uncaught"
         ELSE "failureBad"
    ELSE IF e.ppDirectory = "missing"
    THEN "missingDir"
    ELSE IF e.totalStatus = Some("FAILURE")
    THEN "totalFailure"
    ELSE "continue"

\* the exits of startCheck that call cleanUp first (lines 78, 84, 89)
startCheckCleansUp(path) == path \in {"failureBad", "missingDir", "totalFailure"}

startCheckStatus(path) ==
    CASE path = "usage" -> ExitUsage
      [] path = "ignored" -> ExitIgnored
      [] path = "uncaught" -> ExitUncaught
      [] path = "failureBad" -> POSTPROCESS_SUCCESS
      [] path = "missingDir" -> POSTPROCESS_NONE
      [] path = "totalFailure" -> POSTPROCESS_NONE

(***************************************************************************)
(* main (lines 215-277) and the module's last line (282).                  *)
(***************************************************************************)
\* line 219
Prefix(e) == IF IsSet(e.event) THEN "NZBNA_" ELSE "NZBPP_"

\* the sorted flag not looked at
reorderTriggeredAnyFile(e) ==
    \/ e.event = Some("NZB_ADDED")
    \/ e.event = Some("FILE_DOWNLOADED")

\* the condition of lines 235-237
reorderTriggered(e) ==
    \/ e.event = Some("NZB_ADDED")
    \/ (e.event = Some("FILE_DOWNLOADED") /\ e.sorted # Some(Yes))

Line(k, v) == [key |-> k, val |-> v]

\* line 241
SortedLine == Line("NZBPR_BANNEDFILES_SORTED", Yes)

\* the verdict printed without the command that marks the download
scanLinesNoMark(found, e) ==
    IF Len(found) > 0
    THEN <<Line("NZBPR_PPSTATUS_BANNEDFILE", found),
           Line("NZBPR_PPSTATUS_BANNED", Yes)>>
    ELSE IF e.banned = Some(Yes)
         THEN <<Line("NZBPR_PPSTATUS_BANNED", Empty)>>
         ELSE << >>

\* what lines 168 and 248-270 print for the host, given detectBannedFile's result
scanLines(found, e) ==
    IF Len(found) > 0
    THEN <<Line("NZBPR_PPSTATUS_BANNEDFILE", found),
           Line("NZBPR_PPSTATUS_BANNED", Yes),
           Line("MARK", BAD)>>
    ELSE IF e.banned = Some(Yes)
         THEN <<Line("NZBPR_PPSTATUS_BANNED", Empty)>>
         ELSE << >>

\* cleanUp after every scan
scanCleansUpAlways(prefix) == TRUE

\* lines 276-277
scanCleansUp(prefix) == prefix = "NZBPP_"

(***************************************************************************)
(* The host: it keeps each "[NZB] NZBPR_<name>=<value>" line as a          *)
(* post-processing parameter of the download and hands the parameters to   *)
(* the next invocation in its environment.                                 *)
(***************************************************************************)
NoParams == [sorted |-> None, banned |-> None, bannedFile |-> None]

storeLine(p, l) ==
    CASE l.key = "NZBPR_BANNEDFILES_SORTED" -> [p EXCEPT !.sorted = Some(l.val)]
      [] l.key = "NZBPR_PPSTATUS_BANNED" -> [p EXCEPT !.banned = Some(l.val)]
      [] l.key = "NZBPR_PPSTATUS_BANNEDFILE" -> [p EXCEPT !.bannedFile = Some(l.val)]
      [] OTHER -> p

RECURSIVE storeLines(_, _)
storeLines(p, ls) ==
    IF Len(ls) = 0 THEN p ELSE storeLines(storeLine(p, Head(ls)), Tail(ls))

(***************************************************************************)
(* The inputs the model draws.                                             *)
(***************************************************************************)
Events == KnownEvents \cup {Some("URL_COMPLETED")}
Statuses == {None, Some("SUCCESS/ALL"), Some("FAILURE/BAD")}
TotalStatuses == {None, Some("SUCCESS"), Some("FAILURE")}
DirStates == {"unset", "exists", "missing"}

ExtNfo == <<".", "n", "f", "o">>
ExtExe == <<".", "e", "x", "e">>
Movie == <<"m", ".", "m", "k", "v">>
Readme == <<"r", ".", "n", "f", "o">>
ReadmeUpper == <<"R", ".", "N", "F", "O">>
Setup == <<"s", ".", "e", "x", "e">>
NoExt == <<"R", "E", "A", "D", "M", "E">>
DotFile == <<".", "n", "f", "o">>

File(n) == [name |-> n, isFile |-> TRUE]
Folder(n) == [name |-> n, isFile |-> FALSE]

\* values of NZBPO_BANNEDEXTENSIONS: unset, ".nfo", ".nfo, .exe"
Options == {None, Some(ExtNfo), Some(ExtNfo \o <<",", " ">> \o ExtExe)}

\* contents of the working directory, in enumeration order
Directories ==
    {<< >>,
     <<File(Movie), File(Readme)>>,
     <<File(Setup), File(Readme)>>,
     <<File(NoExt)>>,
     <<File(Movie), File(ReadmeUpper)>>,
     <<Folder(Readme), File(DotFile), File(Movie)>>}

\* volume numbers as they are written in file names
NumStrings == {<<"0">>, <<"1">>, <<"2">>, <<"1", "0">>, <<"0", "2">>}

PartName(d) == <<"a", ".", "p", "a", "r", "t">> \o d \o <<".", "r", "a", "r">>
PartNameUpper(d) == <<"A", ".", "P", "A", "R", "T">> \o d \o <<".", "R", "A", "R">>
RName(d) == <<"b", ".", "r">> \o d
PlainRar == <<"a", ".", "r", "a", "r">>
Par2Name == PartName(<<"1", "0">>) \o <<".", "p", "a", "r", "2">>

ListingNames ==
    {Movie, PlainRar, Par2Name}
      \cup {PartName(d) : d \in NumStrings}
      \cup {PartNameUpper(d) : d \in NumStrings}
      \cup {RName(d) : d \in NumStrings}

\* a listing: its file names in the host's order, the ids consecutive from first
Listing(names, first) ==
    [i \in 1..Len(names) |-> [ID |-> first + i - 1, Filename |-> names[i]]]

Listings ==
    {Listing(names, first) :
        names \in UNION {[1..n -> ListingNames] : n \in 0..MaxEntries},
        first \in 1..MaxId}

\* the listings drawn inside a whole invocation
InvocationListings ==
    {Listing(<< >>, 1),
     Listing(<<Movie, Readme>>, 1),
     Listing(<<PartName(<<"1">>), PartName(<<"1", "0">>), PartName(<<"2">>)>>, 1),
     Listing(<<RName(<<"0">>), Movie, RName(<<"0", "2">>)>>, 2)}

Ids == 1..MaxId

CleanUpInputs ==
    UNION {{[files |-> f, live |-> l, nzb_id |-> n, failing |-> x] :
               l \in SUBSET Ids,
               n \in {None} \cup {Some(i) : i \in Ids},
               x \in SUBSET f} :
           f \in SUBSET Ids}

\* the marker directories and queues drawn inside a whole invocation
InvocationCleanUps ==
    {[files |-> {}, live |-> {}, nzb_id |-> None, failing |-> {}],
     [files |-> {1}, live |-> {1, 2}, nzb_id |-> Some(2), failing |-> {}],
     [files |-> {1, 2, 3}, live |-> {2, 3}, nzb_id |-> Some(2), failing |-> {}],
     [files |-> {1, 2}, live |-> {2}, nzb_id |-> None, failing |-> {1}]}

(***************************************************************************)
(* State of a process that is not running.                                 *)
(***************************************************************************)
NoEnv ==
    [event |-> None, articleCache |-> FALSE, ppDirectory |-> "unset",
     status |-> None, totalStatus |-> None,
     sorted |-> None, banned |-> None, bannedFile |-> None]

NoContext == [Directory |-> "unset", NzbName |-> FALSE, NZBID |-> FALSE]

NotRunning ==
    /\ env = NoEnv
    /\ context = NoContext
    /\ listing = << >>
    /\ dirEntries = << >>
    /\ scanResult = NoFile
    /\ out = << >>
    /\ rpc = << >>
    /\ cu = NoCleanUp
    /\ exitCode = ExitIgnored
    /\ exitPath = "none"

Init ==
    /\ pc = "idle"
    /\ cfg \in Options
    /\ params = NoParams
    /\ NotRunning

(***************************************************************************)
(* The host starts the script for an event of the download.                *)
(***************************************************************************)
Invoke ==
    /\ pc = "idle"
    /\ \E ev \in Events, ac \in BOOLEAN, pd \in DirStates,
          st \in Statuses, ts \in TotalStatuses :
          env' = [event |-> ev, articleCache |-> ac, ppDirectory |-> pd,
                  status |-> st, totalStatus |-> ts,
                  sorted |-> params.sorted, banned |-> params.banned,
                  bannedFile |-> params.bannedFile]
    /\ pc' = "startCheck"
    /\ UNCHANGED <<cfg, params, context, listing, dirEntries, scanResult,
                   out, rpc, cu, exitCode, exitPath>>

(***************************************************************************)
(* startCheck(), with the cleanUp() its exits call.                        *)
(***************************************************************************)
StartCheck ==
    /\ pc = "startCheck"
    /\ LET path == startCheck(env)
       IN IF path = "continue"
          THEN /\ pc' = "context"
               /\ UNCHANGED <<cu, rpc, exitCode, exitPath>>
          ELSE /\ pc' = "exited"
               /\ exitPath' = path
               /\ exitCode' = startCheckStatus(path)
               /\ IF startCheckCleansUp(path)
                  THEN \E i \in InvocationCleanUps :
                          /\ cu' = cleanUp(i.files, i.live, i.nzb_id, i.failing)
                          /\ rpc' = rpc \o cleanUpCalls(cu')
                  ELSE UNCHANGED <<cu, rpc>>
    /\ UNCHANGED <<cfg, params, env, context, listing, dirEntries, scanResult, out>>

(***************************************************************************)
(* Lines 219-224: os.environ[Prefix + 'DIRECTORY'] and                     *)
(* os.environ[Prefix + 'NZBNAME'] raise KeyError when unset.  With the     *)
(* NZBPP_ prefix the directory is the one startCheck looked at.            *)
(***************************************************************************)
ReadContext ==
    /\ pc = "context"
    /\ \E d \in DirStates, n \in BOOLEAN, id \in BOOLEAN :
          /\ Prefix(env) = "NZBPP_" => d = env.ppDirectory
          /\ context' = [Directory |-> d, NzbName |-> n, NZBID |-> id]
          /\ IF d = "unset" \/ ~n
             THEN /\ pc' = "exited"
                  /\ exitPath' = "uncaught"
                  /\ exitCode' = ExitUncaught
             ELSE /\ pc' = "reorder"
                  /\ UNCHANGED <<exitPath, exitCode>>
    /\ UNCHANGED <<cfg, params, env, listing, dirEntries, scanResult, out, rpc, cu>>

(***************************************************************************)
(* Lines 235-243: the reorder step.  int(os.environ.get('NZBNA_NZBID'))    *)
(* raises when the id is unset, before any remote call.                    *)
(***************************************************************************)
Reorder ==
    /\ pc = "reorder"
    /\ IF reorderTriggered(env)
       THEN IF ~context.NZBID
            THEN /\ pc' = "exited"
                 /\ exitPath' = "uncaught"
                 /\ exitCode' = ExitUncaught
                 /\ UNCHANGED <<listing, rpc, out>>
            ELSE \E l \in InvocationListings :
                    /\ listing' = l
                    /\ rpc' = rpc \o sort_inner_files(l)
                    /\ out' = Append(out, SortedLine)
                    /\ IF env.event = Some("NZB_ADDED")
                       THEN /\ pc' = "exited"
                            /\ exitPath' = "nzbAdded"
                            /\ exitCode' = POSTPROCESS_NONE
                       ELSE /\ pc' = "scan"
                            /\ UNCHANGED <<exitPath, exitCode>>
       ELSE /\ pc' = "scan"
            /\ UNCHANGED <<listing, rpc, out, exitPath, exitCode>>
    /\ UNCHANGED <<cfg, params, env, context, dirEntries, scanResult, cu>>

(***************************************************************************)
(* Lines 245-282: the scan, the verdict lines, cleanUp() after             *)
(* post-processing, and the exit.  os.listdir raises when the directory    *)
(* is not there.                                                           *)
(***************************************************************************)
Scan ==
    /\ pc = "scan"
    /\ pc' = "exited"
    /\ IF context.Directory = "missing"
       THEN /\ exitPath' = "uncaught"
            /\ exitCode' = ExitUncaught
            /\ UNCHANGED <<dirEntries, scanResult, out, cu, rpc>>
       ELSE \E d \in Directories :
               /\ dirEntries' = d
               /\ scanResult' = detectBannedFile(d, bannedExtensions(cfg))
               /\ out' = out \o scanLines(scanResult', env)
               /\ IF scanCleansUp(Prefix(env))
                  THEN \E i \in InvocationCleanUps :
                          /\ cu' = cleanUp(i.files, i.live, i.nzb_id, i.failing)
                          /\ rpc' = rpc \o cleanUpCalls(cu')
                  ELSE UNCHANGED <<cu, rpc>>
               /\ exitPath' = "scanDone"
               /\ exitCode' = POSTPROCESS_SUCCESS
    /\ UNCHANGED <<cfg, params, env, context, listing>>

(***************************************************************************)
(* The process is gone; the host keeps the parameters it printed.          *)
(***************************************************************************)
Reap ==
    /\ pc = "exited"
    /\ pc' = "idle"
    /\ params' = storeLines(params, out)
    /\ env' = NoEnv
    /\ context' = NoContext
    /\ listing' = << >>
    /\ dirEntries' = << >>
    /\ scanResult' = NoFile
    /\ out' = << >>
    /\ rpc' = << >>
    /\ cu' = NoCleanUp
    /\ exitCode' = ExitIgnored
    /\ exitPath' = "none"
    /\ UNCHANGED cfg

Next == Invoke \/ StartCheck \/ ReadContext \/ Reorder \/ Scan \/ Reap

Spec == Init /\ [][Next]_vars

(***************************************************************************)
(* sort_inner_files() alone, over every listing within the bounds.         *)
(***************************************************************************)
InitSort ==
    /\ pc = "sort"
    /\ cfg = None
    /\ params = NoParams
    /\ env = NoEnv
    /\ context = NoContext
    /\ listing \in Listings
    /\ dirEntries = << >>
    /\ scanResult = NoFile
    /\ out = << >>
    /\ rpc = << >>
    /\ cu = NoCleanUp
    /\ exitCode = ExitIgnored
    /\ exitPath = "none"

SortCall ==
    /\ pc = "sort"
    /\ pc' = "sorted"
    /\ rpc' = rpc \o sort_inner_files(listing)
    /\ UNCHANGED <<cfg, params, env, context, listing, dirEntries, scanResult,
                   out, cu, exitCode, exitPath>>

SpecSort == InitSort /\ [][SortCall]_vars

(***************************************************************************)
(* cleanUp() alone, over every marker directory, queue, current id and     *)
(* set of failing removals within the bounds.                              *)
(***************************************************************************)
InitCleanUp ==
    /\ pc = "cleanUp"
    /\ cfg = None
    /\ params = NoParams
    /\ env = NoEnv
    /\ context = NoContext
    /\ listing = << >>
    /\ dirEntries = << >>
    /\ scanResult = NoFile
    /\ out = << >>
    /\ rpc = << >>
    /\ \E i \in CleanUpInputs :
          cu = [NoCleanUp EXCEPT !.files = i.files, !.live = i.live,
                                 !.nzb_id = i.nzb_id, !.failing = i.failing]
    /\ exitCode = ExitIgnored
    /\ exitPath = "none"

CleanUpCall ==
    /\ pc = "cleanUp"
    /\ pc' = "cleanedUp"
    /\ cu' = cleanUp(cu.files, cu.live, cu.nzb_id, cu.failing)
    /\ rpc' = rpc \o cleanUpCalls(cu')
    /\ UNCHANGED <<cfg, params, env, context, listing, dirEntries, scanResult,
                   out, exitCode, exitPath>>

SpecCleanUp == InitCleanUp /\ [][CleanUpCall]_vars

(***************************************************************************)
(* Properties.                                                             *)
(***************************************************************************)
HasLine(k, v) == \E i \in 1..Len(out) : out[i] = Line(k, v)
HasKey(k) == \E i \in 1..Len(out) : out[i].key = k
Called(name) == \E i \in 1..Len(rpc) : rpc[i].call = name

\* the configured extensions: the non-empty items of the option's list
ConfiguredExtensions ==
    {bannedExtensions(cfg)[i] : i \in 1..Len(bannedExtensions(cfg))} \ {<< >>}

\* a name whose extension is, ignoring case, a configured extension
HasConfiguredExtension(name) ==
    /\ splitext(name) # << >>
    /\ \E b \in ConfiguredExtensions : Lower(b) = Lower(splitext(name))

\* C1: the scan returns a match if and only if some direct regular file has
\* an extension that is, compared case-insensitively, a member of the
\* configured banned set, and the match is the first such file in
\* enumeration order.
C1_MatchIffBannedIgnoringCase ==
    exitPath = "scanDone" =>
        LET fl == fileList(dirEntries)
            hits == {i \in 1..Len(fl) : HasConfiguredExtension(fl[i].name)}
        IN /\ (scanResult # NoFile) <=> (hits # {})
           /\ hits # {} =>
                  scanResult = fl[CHOOSE i \in hits : \A j \in hits : i <= j].name

\* C2: with the banned-extension option empty or unset, no invocation flags
\* the download: the scan returns no match, and neither
\* NZBPR_PPSTATUS_BANNED=yes nor MARK=BAD is printed.
C2_EmptyOptionNeverFlags ==
    (~IsSet(cfg) \/ cfg = Some(<< >>)) =>
        /\ scanResult = NoFile
        /\ ~HasLine("NZBPR_PPSTATUS_BANNED", Yes)
        /\ ~HasKey("MARK")

\* C3 as stated: after cleanUp with more than one marker, every marker whose
\* id is in the live queue still exists and every marker whose id is not is
\* deleted (its removal is issued, and it is gone unless the removal fails).
C3_LiveKeptOthersDeleted ==
    (cu.ran /\ Cardinality(cu.files) > 1) =>
        \A m \in cu.files :
            /\ m \in cu.live => m \in cu.after
            /\ m \notin cu.live =>
                   /\ m \in cu.removeCalls
                   /\ m \in cu.after => m \in cu.failing

\* C3 amended: after cleanUp with more than one marker, every marker whose id
\* is in the live queue and is not NZBPP_NZBID still exists and no removal
\* was issued for it; for every other marker (not live, or the current
\* download's) the removal was issued, and it is gone unless its removal
\* failed.  Nothing is added.
C3_LiveKeptExceptCurrent ==
    (cu.ran /\ Cardinality(cu.files) > 1) =>
        /\ cu.queried
        /\ cu.after \subseteq cu.files
        /\ \A m \in cu.files :
              IF m \in cu.live /\ cu.nzb_id # Some(m)
              THEN m \in cu.after /\ m \notin cu.removeCalls
              ELSE m \in cu.removeCalls /\ (m \in cu.after <=> m \in cu.failing)

C3_Witness ==
    /\ pc = "cleanedUp"
    /\ cu.files = {1, 2, 3}
    /\ cu.live = {2, 3}
    /\ cu.nzb_id = Some(2)
    /\ cu.failing = {}
    /\ cu.after = {3}

\* C4 as stated: cleanUp with at most one marker issues no live-queue query
\* and leaves the marker directory unchanged.
C4_SingleMarkerUntouched ==
    (cu.ran /\ Cardinality(cu.files) <= 1) =>
        /\ ~cu.queried
        /\ ~Called("listgroups")
        /\ cu.after = cu.files

\* C4 amended: cleanUp with at most one marker issues no live-queue query and
\* issues the removal of every marker present, whatever the queue and the
\* current download id: afterwards only a marker whose removal failed is left.
C4_SingleMarkerRemovedUnqueried ==
    (cu.ran /\ Cardinality(cu.files) <= 1) =>
        /\ ~cu.queried
        /\ ~Called("listgroups")
        /\ cu.removeCalls = cu.files
        /\ cu.after = cu.files \cap cu.failing

C4_Witness ==
    /\ pc = "cleanedUp"
    /\ cu.files = {1}
    /\ cu.live = {1, 2}
    /\ cu.nzb_id = Some(2)
    /\ cu.failing = {}
    /\ cu.after = {}
    /\ rpc = << >>

UnknownEvent == IsSet(env.event) /\ env.event \notin KnownEvents

\* C5 as stated: an invocation whose event is set and unknown ends with the
\* neutral exit (sys.exit(0)), whatever the other context fields are.
C5_UnknownEventNeutral ==
    (UnknownEvent /\ pc # "startCheck") =>
        /\ pc = "exited"
        /\ exitPath = "ignored"
        /\ exitCode = ExitIgnored

\* C5 amended: an invocation whose event is set and unknown and whose
\* NZBOP_ARTICLECACHE is set ends with the neutral exit (sys.exit(0)) and
\* never with the usage-error exit, whatever the other context fields are;
\* nothing is printed for the host and no remote call is made.
C5_UnknownEventNeutralInNzbget ==
    (UnknownEvent /\ env.articleCache /\ pc # "startCheck") =>
        /\ pc = "exited"
        /\ exitPath = "ignored"
        /\ exitCode = ExitIgnored
        /\ exitCode # ExitUsage
        /\ out = << >>
        /\ rpc = << >>

C5_Witness ==
    /\ pc = "exited"
    /\ UnknownEvent
    /\ env.articleCache
    /\ env.status = Some("FAILURE/BAD")
    /\ env.ppDirectory = "missing"
    /\ env.totalStatus = Some("FAILURE")
    /\ exitCode = ExitIgnored

\* the volume numbers a name carries: the digits between ".part" and ".rar",
\* or the digits after ".r", wherever they stand in the name and in any case
\* (re.match ties the pattern to the start of the name only)
VolumeNumbers(name) ==
    {ToInt(SubSeq(name, i + 5, DigitRunEnd(name, i + 5))) : i \in
        {i \in 1..Len(name) :
            /\ HasAt(name, i, <<".", "p", "a", "r", "t">>)
            /\ DigitRunEnd(name, i + 5) >= i + 5
            /\ HasAt(name, DigitRunEnd(name, i + 5) + 1, <<".", "r", "a", "r">>)}}
      \cup
    {ToInt(SubSeq(name, i + 2, DigitRunEnd(name, i + 2))) : i \in
        {i \in 1..Len(name) :
            /\ HasAt(name, i, <<".", "r">>)
            /\ DigitRunEnd(name, i + 2) >= i + 2}}

IsVolume(name) == VolumeNumbers(name) # {}
VolumeNumber(name) == CHOOSE n \in VolumeNumbers(name) : TRUE

SortCalled == Called("listfiles") \/ Called("FileMoveTop")

\* C8: the listing query and the move command are issued only in an
\* invocation for NZB_ADDED, or for FILE_DOWNLOADED without the sorted flag;
\* a reorder that has made its query has printed
\* NZBPR_BANNEDFILES_SORTED=yes by the time the step ends; and once the host
\* keeps that flag, no FILE_DOWNLOADED invocation issues either call.
C8_ReorderOnceThenFlagged ==
    /\ SortCalled =>
          \/ env.event = Some("NZB_ADDED")
          \/ (env.event = Some("FILE_DOWNLOADED") /\ env.sorted # Some(Yes))
    /\ SortCalled => HasLine("NZBPR_BANNEDFILES_SORTED", Yes)
    /\ (params.sorted = Some(Yes) /\ env.event = Some("FILE_DOWNLOADED"))
          => ~SortCalled

C8_Witness ==
    /\ pc = "exited"
    /\ exitPath = "scanDone"
    /\ params.sorted = Some(Yes)
    /\ env.sorted = Some(Yes)
    /\ env.event = Some("FILE_DOWNLOADED")
    /\ ~SortCalled

PassesChecks ==
    /\ IsSet(env.event) \/ env.ppDirectory # "unset"
    /\ env.articleCache
    /\ env.event \in KnownEvents

C10_CleanUpOnEveryExit ==
    (/\ pc = "exited"
     /\ exitPath \in {"ignored", "nzbAdded", "failureBad", "missingDir",
                      "totalFailure", "scanDone"})
        => cu.ran

\* C10 amended: cleanUp has run before the process exits exactly at the
\* exits for FAILURE/BAD, a missing directory and total status FAILURE, and
\* at the end of a scan of a post-processing invocation (NZBNA_EVENT unset);
\* it has not at the unknown-event exit, the NZB_ADDED exit or the end of a
\* scan of a queue-event invocation.
C10_CleanUpOnPostProcessExits ==
    pc = "exited" =>
        (cu.ran <=>
            \/ exitPath \in {"failureBad", "missingDir", "totalFailure"}
            \/ (exitPath = "scanDone" /\ ~IsSet(env.event)))

C10_Witness ==
    /\ pc = "exited"
    /\ exitPath = "scanDone"
    /\ ~IsSet(env.event)
    /\ cu.ran
    /\ cu.files = {1, 2, 3}
    /\ cu.after = {3}
    /\ Called("listgroups")

====
